---- MODULE Spec2Model ----
(***************************************************************************)
(* gulp-sass-dependency-tracker: the dependency graph (SassDependencyTree, *)
(* src/src/dependency-tree.js), the facade with its own map                *)
(* (DependencyTracker, src/src/dependency-tracker.js), the import          *)
(* resolution (src/src/resolve-sass-import.js) and the path ponyfill.      *)
(*                                                                         *)
(* A string is a sequence of tokens.  A token is a separator ("/" or the   *)
(* backslash "\\"), an underscore "_", a suffix (".scss", ".sass",         *)
(* ".css"), a dot segment ("." or "..") or a name.  endsWith, startsWith,  *)
(* includes, lastIndexOf, substr and concatenation work on the tokens as   *)
(* the JavaScript methods work on the characters.                          *)
(***************************************************************************)
EXTENDS Integers, Sequences, FiniteSets, TLC

\* ------------------------------------------------------------ bounds

\* The most entries all dependency lists of one map hold together.
MaxEdges == 2
\* The most files one stream instance carries.
MaxStream == 2
\* The deepest nesting of calls the engine's stack holds (RangeError beyond).
StackLimit == 5

\* ------------------------------------------------------------ strings

SCSS == ".scss"
SASS == ".sass"
SEP == "/"

endsWith(s, tok) == Len(s) > 0 /\ s[Len(s)] = tok

startsWith(s, tok) == Len(s) > 0 /\ s[1] = tok

\* String.prototype.startsWith with a string argument.
startsWithStr(s, prefix) ==
    /\ Len(prefix) <= Len(s)
    /\ \A i \in 1..Len(prefix) : s[i] = prefix[i]

includes(s, tok) == \E i \in 1..Len(s) : s[i] = tok

\* 0 when the token does not occur (JavaScript: -1), else its 1-based place.
lastIndexOf(s, tok) ==
    IF includes(s, tok)
    THEN CHOOSE i \in 1..Len(s) : s[i] = tok /\ \A j \in (i+1)..Len(s) : s[j] # tok
    ELSE 0

IsSep(tok) == tok = "/" \/ tok = "\\"

\* ------------------------------------------------------------ path ponyfill

\* A path without the "/" it ends in, unless it is the "/" alone.
stripTrailingSep(s) ==
    IF Len(s) > 1 /\ s[Len(s)] = SEP THEN SubSeq(s, 1, Len(s) - 1) ELSE s

\* normalize-path: every run of slashes and backslashes becomes one "/",
\* and a trailing "/" is stripped.  "." and ".." are left alone.
RECURSIVE CollapseSeps(_)
CollapseSeps(s) ==
    IF s = <<>> THEN <<>>
    ELSE IF IsSep(Head(s))
         THEN IF Len(s) > 1 /\ IsSep(s[2])
              THEN CollapseSeps(Tail(s))
              ELSE <<SEP>> \o CollapseSeps(Tail(s))
         ELSE <<Head(s)>> \o CollapseSeps(Tail(s))

normalize(s) ==
    IF s = <<"\\">> \/ s = <<SEP>> THEN <<SEP>>
    ELSE stripTrailingSep(CollapseSeps(s))

\* String.prototype.indexOf: 0 when the token does not occur (JavaScript:
\* -1), else the 1-based place of its first occurrence.
indexOf(s, tok) ==
    IF includes(s, tok)
    THEN CHOOSE i \in 1..Len(s) : s[i] = tok /\ \A j \in 1..(i-1) : s[j] # tok
    ELSE 0

\* The segments between the "/" of a string ("a//b" has an empty one).
RECURSIVE Split(_)
Split(s) ==
    IF ~includes(s, SEP) THEN <<s>>
    ELSE <<SubSeq(s, 1, indexOf(s, SEP) - 1)>>
         \o Split(SubSeq(s, indexOf(s, SEP) + 1, Len(s)))

RECURSIVE JoinSegs(_)
JoinSegs(segs) ==
    IF segs = <<>> THEN <<>>
    ELSE IF Len(segs) = 1 THEN segs[1]
    ELSE segs[1] \o <<SEP>> \o JoinSegs(Tail(segs))

\* posix normalizeString: drops empty and "." segments, resolves "..".
RECURSIVE ResolveDots(_, _, _)
ResolveDots(segs, acc, absolute) ==
    IF segs = <<>> THEN acc
    ELSE IF Head(segs) = <<>> \/ Head(segs) = <<".">>
         THEN ResolveDots(Tail(segs), acc, absolute)
    ELSE IF Head(segs) = <<"..">>
         THEN IF acc # <<>> /\ acc[Len(acc)] # <<"..">>
              THEN ResolveDots(Tail(segs), SubSeq(acc, 1, Len(acc) - 1), absolute)
              ELSE IF absolute
                   THEN ResolveDots(Tail(segs), acc, absolute)
                   ELSE ResolveDots(Tail(segs), Append(acc, Head(segs)), absolute)
    ELSE ResolveDots(Tail(segs), Append(acc, Head(segs)), absolute)

isAbsolute(s) == startsWith(s, SEP)

\* posix path.normalize, which path.join and path.resolve apply: the
\* normalized body, "." for an empty relative one, the trailing "/" kept.
normalizedBody(body, absolute, trailing) ==
    IF body = <<>> /\ ~absolute THEN IF trailing THEN <<".", SEP>> ELSE <<".">>
    ELSE IF body # <<>> /\ trailing THEN body \o <<SEP>>
    ELSE body

posixNormalize(s) ==
    IF s = <<>> THEN <<".">>
    ELSE (IF isAbsolute(s) THEN <<SEP>> ELSE <<>>)
         \o normalizedBody(JoinSegs(ResolveDots(Split(s), <<>>, isAbsolute(s))),
                           isAbsolute(s), endsWith(s, SEP))

\* path.join of two arguments: empty arguments are skipped.
join(a, b) ==
    IF a = <<>> /\ b = <<>> THEN <<".">>
    ELSE IF a = <<>> THEN posixNormalize(b)
    ELSE IF b = <<>> THEN posixNormalize(a)
    ELSE posixNormalize(a \o <<SEP>> \o b)

\* process.cwd(): the working directory of the build.
cwd == <<SEP, "r">>

\* path.resolve of one argument, against process.cwd().
resolve(s) ==
    stripTrailingSep(posixNormalize(IF isAbsolute(s) THEN s ELSE cwd \o <<SEP>> \o s))

\* relative.toBase(base, fp): fp with the base cut from its front.
dropLeadingSep(s) == IF startsWith(s, SEP) THEN Tail(s) ELSE s

relative(base, fp) == dropLeadingSep(SubSeq(fp, Len(base) + 1, Len(fp)))

\* ------------------------------------------------------------ files

\* The files on disk: two stylesheets and a partial under the working
\* directory /r, laid out as the fixtures of src/test/test.js.
FileA == <<SEP, "r", SEP, "a", SCSS>>
FileB == <<SEP, "r", SEP, "_", "b", SCSS>>
FileSA == <<SEP, "r", SEP, "s", SEP, "a", SCSS>>
DiskFiles == {FileA, FileB, FileSA}

\* What else the disk holds, none of it a file of the build: c.scss beside
\* its partial _c.scss, d.sass, the partial _e.sass, f.scss beside f.sass,
\* the partial _g.scss beside g.sass, __k.scss, and under /r/s h.scss, the
\* partial _i.scss and j.sass.
OtherFiles ==
    {<<SEP, "r", SEP, "c", SCSS>>, <<SEP, "r", SEP, "_", "c", SCSS>>,
     <<SEP, "r", SEP, "d", SASS>>, <<SEP, "r", SEP, "_", "e", SASS>>,
     <<SEP, "r", SEP, "f", SCSS>>, <<SEP, "r", SEP, "f", SASS>>,
     <<SEP, "r", SEP, "_", "g", SCSS>>, <<SEP, "r", SEP, "g", SASS>>,
     <<SEP, "r", SEP, "_", "_", "k", SCSS>>,
     <<SEP, "r", SEP, "s", SEP, "h", SCSS>>,
     <<SEP, "r", SEP, "s", SEP, "_", "i", SCSS>>,
     <<SEP, "r", SEP, "s", SEP, "j", SASS>>}

VARIABLES
    instance,      \* the object constructed: "DependencyTracker" or "SassDependencyTree"
    sass_tree,     \* DependencyTracker.sass_tree: key -> entry
    internalTree,  \* SassDependencyTree.internalTree: key -> entry
    filterIn,      \* the paths of the files a filter() stream has taken in
    filterOut,     \* the paths of the files that stream has emitted
    marked,        \* history: the paths reportCompiled marked since the last
                   \* queueRebuild, and those of them marked since the last reset
    last,          \* the call the observer recorded: name, arguments, outcome
    pipeline       \* the run of the sass task: the files between its stages and
                   \* what the run and the watcher did to them

vars == <<instance, sass_tree, internalTree, filterIn, filterOut, marked, last, pipeline>>

\* A test for a file that finds every file.
existsAlways(file) == TRUE

\* path.exists: fs.existsSync(path.resolve(path.normalize(file))), on the
\* disk that holds DiskFiles and OtherFiles.
exists(file) == resolve(normalize(file)) \in DiskFiles \cup OtherFiles

\* ------------------------------------------------------------ import resolution

NotFound == <<>>

hasSassExtension(importPath) == endsWith(importPath, SCSS) \/ endsWith(importPath, SASS)

\* A lookupPath that is given ".sass" when the import names no extension.
sassFirst(importPath) ==
    IF endsWith(importPath, SCSS) \/ endsWith(importPath, SASS) THEN importPath
    ELSE importPath \o <<SASS>>

\* lookupPath: the import path, with ".scss" when it names no extension.
lookupPathOf(importPath) ==
    IF hasSassExtension(importPath) THEN importPath ELSE importPath \o <<SCSS>>

absoluteIncludePathOf(includePath) ==
    IF isAbsolute(includePath) THEN normalize(includePath)
    ELSE normalize(join(cwd, includePath))

\* contextPath after its normalization; a null contextPath is NotFound.
contextPathOf(contextPath) ==
    IF contextPath = NotFound THEN NotFound
    ELSE IF isAbsolute(normalize(contextPath)) THEN normalize(contextPath)
    ELSE normalize(join(cwd, normalize(contextPath)))

\* base and fileName: lookupPath up to and with its last "/", and after it.
baseOf(lookupPath) ==
    IF includes(lookupPath, SEP)
    THEN SubSeq(lookupPath, 1, lastIndexOf(lookupPath, SEP))
    ELSE <<>>

fileNameOf(lookupPath) ==
    IF includes(lookupPath, SEP)
    THEN SubSeq(lookupPath, lastIndexOf(lookupPath, SEP) + 1, Len(lookupPath))
    ELSE lookupPath

build(absoluteIncludePath, a, b) == normalize(join(absoluteIncludePath, join(a, b)))

\* resolveSassImport(importPath, includePath, contextPath), NotFound being
\* the null it returns, and the chain of its tests on what it has built.
RECURSIVE resolveSassImport(_, _, _)
RECURSIVE lookup(_, _, _, _, _, _)
resolveSassImport(importPath, includePath, contextPath) ==
    lookup(importPath, includePath, contextPathOf(contextPath),
           lookupPathOf(importPath), absoluteIncludePathOf(includePath),
           fileNameOf(lookupPathOf(importPath)))

\* A chain of tests that tries the partial before the file itself.
partialFirst(importPath, includePath, contextPath, lookupPath, absoluteIncludePath, fileName) ==
    IF /\ ~startsWith(fileName, "_")
       /\ exists(build(absoluteIncludePath, baseOf(lookupPath), <<"_">> \o fileName))
    THEN build(absoluteIncludePath, baseOf(lookupPath), <<"_">> \o fileName)
    ELSE IF exists(build(absoluteIncludePath, baseOf(lookupPath), fileName))
    THEN build(absoluteIncludePath, baseOf(lookupPath), fileName)
    ELSE NotFound

lookup(importPath, includePath, contextPath, lookupPath, absoluteIncludePath, fileName) ==
    IF exists(build(absoluteIncludePath, baseOf(lookupPath), fileName))
    THEN build(absoluteIncludePath, baseOf(lookupPath), fileName)
    ELSE IF /\ ~startsWith(fileName, "_")
            /\ exists(build(absoluteIncludePath, baseOf(lookupPath), <<"_">> \o fileName))
    THEN build(absoluteIncludePath, baseOf(lookupPath), <<"_">> \o fileName)
    ELSE IF contextPath # NotFound /\ startsWithStr(contextPath, absoluteIncludePath)
    THEN resolveSassImport(
             normalize(join(relative(absoluteIncludePath, contextPath), lookupPath)),
             includePath, NotFound)
    ELSE IF ~hasSassExtension(importPath) /\ endsWith(lookupPath, SCSS)
    THEN resolveSassImport(importPath \o <<SASS>>, includePath, contextPath)
    ELSE NotFound

\* The invocations of resolveSassImport one call of it makes, itself the
\* first: the arguments of each, in the order they are made.
RECURSIVE invocations(_, _, _)
RECURSIVE nested(_, _, _, _, _, _)
invocations(importPath, includePath, contextPath) ==
    <<<<importPath, includePath, contextPath>>>>
    \o nested(importPath, includePath, contextPathOf(contextPath),
              lookupPathOf(importPath), absoluteIncludePathOf(includePath),
              fileNameOf(lookupPathOf(importPath)))

nested(importPath, includePath, contextPath, lookupPath, absoluteIncludePath, fileName) ==
    IF exists(build(absoluteIncludePath, baseOf(lookupPath), fileName))
    THEN <<>>
    ELSE IF /\ ~startsWith(fileName, "_")
            /\ exists(build(absoluteIncludePath, baseOf(lookupPath), <<"_">> \o fileName))
    THEN <<>>
    ELSE IF contextPath # NotFound /\ startsWithStr(contextPath, absoluteIncludePath)
    THEN invocations(
             normalize(join(relative(absoluteIncludePath, contextPath), lookupPath)),
             includePath, NotFound)
    ELSE IF ~hasSassExtension(importPath) /\ endsWith(lookupPath, SCSS)
    THEN invocations(importPath \o <<SASS>>, includePath, contextPath)
    ELSE <<>>

Root == <<SEP, "r">>
Sub == <<SEP, "r", SEP, "s">>

\* The import paths a stylesheet may name: a, b (the partial _b), one that
\* is nowhere on disk, and the names of OtherFiles: bare, with an underscore,
\* with a suffix, and with a directory.
ImportPaths ==
    {<<"a">>, <<"b">>, <<"x">>}
    \cup {<<"c">>, <<"d">>, <<"e">>, <<"f">>, <<"g">>, <<"h">>, <<"i">>, <<"j">>, <<"k">>}
    \cup {<<"_", "a">>, <<"_", "b">>, <<"_", "c">>, <<"_", "k">>}
    \cup {<<"a", SASS>>, <<"d", SCSS>>, <<"d", SASS>>, <<"f", SASS>>, <<"b", SCSS>>}
    \cup {<<"s", SEP, "a">>, <<"s", SEP, "h">>, <<"s", SEP, "i">>, <<"s", SEP, "j">>}

\* The include paths sassOptions may list, and the bases of the files.
IncludeDirs == {<<".">>, Root, Sub}
BaseDirs == {Root, Sub}

\* resolveSassImport, tabulated: the pairs of its arguments and its result.
Resolved ==
    {<<q, resolveSassImport(q[1], q[2], q[3])>> :
        q \in ImportPaths \X IncludeDirs \X BaseDirs}

\* resolveImport, as dependency-tracker.js requires resolve-sass-import.
resolveImport(importPath, includePath, contextPath) ==
    (CHOOSE entry \in Resolved :
        entry[1] = <<importPath, includePath, contextPath>>)[2]

\* ------------------------------------------------------------ the Map

\* A Map is the function from its keys to its entries; an entry holds
\* 'recompile' and 'dependencies'.  forEach visits the entries in the order
\* they were inserted: the model keeps no insertion order and lets forEach
\* visit in every order.
EmptyMap == <<>>

has(tree, key) == key \in DOMAIN tree

newEntry == [recompile |-> TRUE, dependencies |-> <<>>]

\* SassDependencyTree[_getOrCreateEntry] and DependencyTracker.getOrCreateEntry:
\* the map after the call (the entry returned is then tree[normalizedPath]).
getOrCreateEntry(tree, normalizedPath) ==
    IF ~has(tree, normalizedPath)
    THEN [k \in DOMAIN tree \cup {normalizedPath} |->
             IF k = normalizedPath THEN newEntry ELSE tree[k]]
    ELSE tree

\* entry.set('recompile', value) on the entry of key.
setRecompile(tree, key, value) == [tree EXCEPT ![key].recompile = value]

\* entry.get('dependencies').push(dependencyPath) on the entry of key.
pushDependency(tree, key, dependencyPath) ==
    [tree EXCEPT ![key].dependencies = Append(@, dependencyPath)]

\* Array.prototype.indexOf(x) >= 0 and Array.prototype.includes(x).
inArray(arr, x) == \E i \in 1..Len(arr) : arr[i] = x

RECURSIVE sumLen(_, _)
sumLen(tree, ks) ==
    IF ks = {} THEN 0
    ELSE LET k == CHOOSE x \in ks : TRUE
         IN Len(tree[k].dependencies) + sumLen(tree, ks \ {k})

edgeCount(tree) == sumLen(tree, DOMAIN tree)

\* ------------------------------------------------------------ file arguments

\* A file argument is a tagged record: a Vinyl file ("vinyl": path, base,
\* history, contents), a string ("string": path), a Map ("Map": hasPath and
\* the value under 'path', itself a file argument), a plain object
\* ("object": hasPath and path) or null ("null").
Invalid == <<"Error">>

str(s) == [kind |-> "string", path |-> s]

\* A reading of the file argument that does not resolve a string.
RECURSIVE readsUnresolved(_)
readsUnresolved(file) ==
    IF file.kind = "null" THEN Invalid
    ELSE IF file.kind = "Map" /\ file.hasPath THEN readsUnresolved(file.path)
    ELSE IF file.kind \in {"vinyl", "string"} \/ (file.kind = "object" /\ file.hasPath)
         THEN normalize(file.path)
    ELSE Invalid

RECURSIVE fileArgumentToNormalizedPath(_)
fileArgumentToNormalizedPath(file) ==
    IF file.kind = "null" THEN Invalid
    ELSE IF file.kind = "vinyl" THEN normalize(file.path)
    ELSE IF file.kind = "Map" /\ file.hasPath THEN fileArgumentToNormalizedPath(file.path)
    ELSE IF (file.kind = "string") \/ (file.kind = "object" /\ file.hasPath)
         THEN normalize(resolve(file.path))
    ELSE Invalid

\* (typeof file === 'string') ? file : file.path yields a string.
hasPathString(file) ==
    \/ file.kind \in {"string", "vinyl"}
    \/ file.kind = "object" /\ file.hasPath

\* ------------------------------------------------------------ invalidation

\* What a call leaves: the map, the error it threw ("none" when it
\* returned; "Error" of an unreadable file argument, "TypeError", and
\* "RangeError" of a call stack deeper than StackLimit) and its value.
ret(tree, value) == [tree |-> tree, error |-> "none", value |-> value]
throw(tree, error) == [tree |-> tree, error |-> error, value |-> "none"]

\* A marking that sets 'recompile' on every entry of the map.
dirtiesAll(tree, path) ==
    [key \in DOMAIN getOrCreateEntry(tree, path) |->
        [getOrCreateEntry(tree, path)[key] EXCEPT !.recompile = TRUE]]

\* entry.set('recompile', true) on the entry got or created for the path.
markDirty(tree, path) == setRecompile(getOrCreateEntry(tree, path), path, TRUE)

\* A forEach that collects no key.
collectsNothing(tree, sourceFilePath) == {}

\* The keys internalTree.forEach collects into dependingFiles: the entries
\* that list sourceFilePath and are marked compiled.
dependingFiles(tree, sourceFilePath) ==
    {key \in DOMAIN tree :
        /\ inArray(tree[key].dependencies, sourceFilePath)
        /\ tree[key].recompile = FALSE}

\* SassDependencyTree.markAsNotCompiled(sourceFile), called at stack depth
\* `depth`: its statements from the path it read on, and its loop over
\* dependingFiles, which calls it again.  The outcomes are one for every
\* order the loop may take.
RECURSIVE markAsNotCompiledAt(_, _, _)
RECURSIVE markPath(_, _, _)
RECURSIVE markDependents(_, _, _, _)
markAsNotCompiledAt(tree, sourceFile, depth) ==
    IF depth > StackLimit THEN {throw(tree, "RangeError")}
    ELSE markPath(tree, fileArgumentToNormalizedPath(sourceFile), depth)

markPath(tree, sourceFilePath, depth) ==
    IF sourceFilePath = Invalid THEN {throw(tree, "Error")}
    ELSE markDependents(markDirty(tree, sourceFilePath), sourceFilePath,
                        dependingFiles(markDirty(tree, sourceFilePath), sourceFilePath),
                        depth)

markDependents(tree, sourceFilePath, dependents, depth) ==
    IF dependents = {} THEN {ret(tree, "none")}
    ELSE UNION {
           UNION {IF r.error # "none" THEN {r}
                  ELSE markDependents(r.tree, sourceFilePath,
                                      dependents \ {dependent}, depth) :
                  r \in markAsNotCompiledAt(tree, str(dependent), depth + 1)} :
           dependent \in dependents}

\* A marking of the file alone.
marksFileOnly(tree, sourceFile) ==
    IF fileArgumentToNormalizedPath(sourceFile) = Invalid THEN {throw(tree, "Error")}
    ELSE {ret(markDirty(tree, fileArgumentToNormalizedPath(sourceFile)), "none")}

markAsNotCompiled(tree, sourceFile) == markAsNotCompiledAt(tree, sourceFile, 1)

\* A rebuildCheck that does not test 'recompile'.
dependsUnchecked(tree, filepath) ==
    {key \in DOMAIN tree : inArray(tree[key].dependencies, filepath)}

\* The keys sass_tree.forEach(rebuildCheck) pushes to rebuildDepends.
rebuildDepends(tree, filepath) ==
    {key \in DOMAIN tree :
        /\ tree[key].recompile = FALSE
        /\ inArray(tree[key].dependencies, filepath)}

\* DependencyTracker.queueRebuild(file), called at stack depth `depth`, and
\* rebuildDepends.forEach(rebuildQueue).
RECURSIVE queueRebuildAt(_, _, _)
RECURSIVE rebuildQueue(_, _, _, _)
queueRebuildAt(tree, file, depth) ==
    IF depth > StackLimit THEN {throw(tree, "RangeError")}
    ELSE IF ~hasPathString(file) THEN {throw(tree, "TypeError")}
    ELSE rebuildQueue(markDirty(tree, normalize(file.path)), normalize(file.path),
                      rebuildDepends(markDirty(tree, normalize(file.path)),
                                     normalize(file.path)),
                      depth)

rebuildQueue(tree, filepath, depends, depth) ==
    IF depends = {} THEN {ret(tree, "none")}
    ELSE UNION {
           UNION {IF r.error # "none" THEN {r}
                  ELSE rebuildQueue(r.tree, filepath, depends \ {entry}, depth) :
                  r \in queueRebuildAt(tree, str(entry), depth + 1)} :
           entry \in depends}

queueRebuild(tree, file) == queueRebuildAt(tree, file, 1)

\* ------------------------------------------------------------ DependencyTracker

\* entry.get('recompile') === true of an entry the map holds.
recompileOf(tree, filepath) == ret(tree, tree[filepath].recompile = TRUE)

\* needsRebuild(file): the entry is created when the map has none.
needsRebuild(tree, file) ==
    IF ~hasPathString(file) THEN throw(tree, "TypeError")
    ELSE recompileOf(getOrCreateEntry(tree, normalize(file.path)),
                     normalize(file.path))

\* A condition that holds of every file.
includesAll(tree, file) == ret(tree, TRUE)

\* The condition filter() hands to gulp-ignore's include.
filterCondition(tree, file) ==
    IF ~endsWith(file.path, SCSS) THEN ret(tree, TRUE)
    ELSE needsRebuild(tree, file)

\* me.getOrCreateEntry(filePath).set('recompile', false)
markClean(tree, filePath) ==
    setRecompile(getOrCreateEntry(tree, filePath), filePath, FALSE)

\* A loop over file.history that marks nothing.
marksNothing(tree, history) == tree

\* The loop of reportCompiled over file.history.
RECURSIVE markHistory(_, _)
markHistory(tree, history) ==
    IF history = <<>> THEN tree
    ELSE IF endsWith(Head(history), SCSS)
         THEN markHistory(markClean(tree, normalize(Head(history))), Tail(history))
         ELSE markHistory(tree, Tail(history))

\* A reportCompiled that looks at the current path alone.
marksCurrentPath(tree, file) ==
    ret(IF endsWith(file.path, SCSS) THEN markClean(tree, normalize(file.path)) ELSE tree,
        "passed")

reportCompiled(tree, file) == ret(markHistory(tree, file.history), "passed")

\* sassOptions.includePaths || ['.']
includePathsOf(sassOptions) ==
    IF sassOptions.hasIncludePaths THEN sassOptions.includePaths ELSE << <<".">> >>

\* The loop of reportImport over includePaths: it breaks at the first
\* include path resolveImport resolves, and is left with the last result.
RECURSIVE firstResolved(_, _, _)
RECURSIVE breakOrNext(_, _, _, _)
firstResolved(importPath, includePaths, contextPath) ==
    IF includePaths = <<>> THEN NotFound
    ELSE breakOrNext(resolveImport(importPath, Head(includePaths), contextPath),
                     importPath, Tail(includePaths), contextPath)

\* A loop that does not break: it is left with what the last include path
\* resolved.
neverBreaks(importFilePath, importPath, includePaths, contextPath) ==
    IF includePaths = <<>> THEN importFilePath
    ELSE firstResolved(importPath, includePaths, contextPath)

breakOrNext(importFilePath, importPath, includePaths, contextPath) ==
    IF importFilePath # NotFound THEN importFilePath
    ELSE firstResolved(importPath, includePaths, contextPath)

\* A registration that pushes no path the list already holds.
registersOnce(tree, filePath, importFilePath) ==
    IF importFilePath = NotFound THEN ret(tree, 1)
    ELSE IF has(tree, filePath) /\ inArray(tree[filePath].dependencies, importFilePath)
         THEN ret(tree, 0)
    ELSE ret(pushDependency(getOrCreateEntry(tree, filePath), filePath,
                            importFilePath), 0)

\* The end of reportImport: the dependency pushed, or the warning logged.
\* The value is the number of warnings.
registerImport(tree, filePath, importFilePath) ==
    IF importFilePath # NotFound
    THEN ret(pushDependency(getOrCreateEntry(tree, filePath), filePath,
                            importFilePath), 0)
    ELSE ret(tree, 1)

\* reportImport(match, file, sassOptions); regex.exec(match)[1] is the
\* import path of the match.
reportImport(tree, match, file, sassOptions) ==
    registerImport(tree, normalize(file.path),
                   firstResolved(match.path, includePathsOf(sassOptions),
                                 normalize(file.base)))

\* regExp.exec(content) with the cursor at lastIndex: the place of the
\* next import statement behind the cursor, which becomes the cursor, or 0
\* (JavaScript: null, and the cursor is reset) when there is none.
exec(contents, lastIndex) ==
    IF \E i \in (lastIndex + 1)..Len(contents) : contents[i].kind = "import"
    THEN CHOOSE i \in (lastIndex + 1)..Len(contents) :
             /\ contents[i].kind = "import"
             /\ \A j \in (lastIndex + 1)..(i - 1) : contents[j].kind # "import"
    ELSE 0

\* while (match = regExp.exec(content)) matchCallback(match, file): the
\* matches handed to the callback, in their order.
RECURSIVE matchesFrom(_, _)
matchesFrom(contents, lastIndex) ==
    IF exec(contents, lastIndex) = 0 THEN <<>>
    ELSE <<contents[exec(contents, lastIndex)]>>
         \o matchesFrom(contents, exec(contents, lastIndex))

\* A scan with the cursor a former scan left behind the first piece.
scansFromLeftCursor(contents) == matchesFrom(contents, 1)

\* inspectStream on one file: regExp = RegExp(regExp.source, regExp.flags)
\* is a new object, its lastIndex 0, and the loop runs over file.contents.
scan(contents) == matchesFrom(contents, 0)

warnedMore(r, warned) == ret(r.tree, r.value + warned)

\* A scan that gives up at the first import that does not resolve.
RECURSIVE stopsAtUnresolved(_, _, _, _)
stopsAtUnresolved(r, matches, file, sassOptions) ==
    IF matches = <<>> \/ r.value > 0 THEN r
    ELSE stopsAtUnresolved(
             warnedMore(reportImport(r.tree, Head(matches), file, sassOptions),
                        r.value),
             Tail(matches), file, sassOptions)

\* The callback of inspect() on every match inspectStream finds in a file;
\* r holds the map and the warnings so far.
RECURSIVE inspectMatches(_, _, _, _)
inspectMatches(r, matches, file, sassOptions) ==
    IF matches = <<>> THEN r
    ELSE IF endsWith(file.path, SCSS)
         THEN inspectMatches(
                  warnedMore(reportImport(r.tree, Head(matches), file, sassOptions),
                             r.value),
                  Tail(matches), file, sassOptions)
         ELSE inspectMatches(r, Tail(matches), file, sassOptions)

inspect(tree, file, sassOptions) ==
    inspectMatches(ret(tree, 0), scan(file.contents), file, sassOptions)

\* A logFiles that marks the file it logs as compiled.
marksLogged(tree, file) == ret(markClean(tree, normalize(file.path)), file)

\* The callback of logFiles(): it logs the normalized path unless output is
\* suppressed, and hands the file on: cb(null, file).
logFiles(tree, file) == ret(tree, file)

\* ------------------------------------------------------------ SassDependencyTree

\* A test of the source path alone.
sourceInvalid(sourceFilePath, dependencyPath) == sourceFilePath = Invalid

invalid(sourceFilePath, dependencyPath) ==
    sourceFilePath = Invalid \/ dependencyPath = Invalid

\* An addDependency that pushes no dependency of a file on itself.
skipsLoops(tree, sourceFilePath, dependencyPath) ==
    IF sourceFilePath = Invalid \/ dependencyPath = Invalid THEN throw(tree, "Error")
    ELSE IF sourceFilePath = dependencyPath
         THEN ret(getOrCreateEntry(tree, sourceFilePath), "none")
    ELSE ret(pushDependency(getOrCreateEntry(tree, sourceFilePath),
                            sourceFilePath, dependencyPath), "none")

\* addDependency from the two paths it read on.
pushTo(tree, sourceFilePath, dependencyPath) ==
    IF invalid(sourceFilePath, dependencyPath) THEN throw(tree, "Error")
    ELSE ret(pushDependency(getOrCreateEntry(tree, sourceFilePath),
                            sourceFilePath, dependencyPath), "none")

addDependency(tree, sourceFile, dependencyFile) ==
    pushTo(tree, fileArgumentToNormalizedPath(sourceFile),
           fileArgumentToNormalizedPath(dependencyFile))

\* removeDependency from the two paths it read on: Array.prototype has no
\* remove, so the call that finds the dependency throws a TypeError and
\* removes nothing.
removeFrom(tree, sourceFilePath, dependencyPath) ==
    IF invalid(sourceFilePath, dependencyPath) THEN throw(tree, "Error")
    ELSE IF inArray(getOrCreateEntry(tree, sourceFilePath)[sourceFilePath].dependencies,
                    dependencyPath)
         THEN throw(getOrCreateEntry(tree, sourceFilePath), "TypeError")
         ELSE ret(getOrCreateEntry(tree, sourceFilePath), "none")

removeDependency(tree, sourceFile, dependencyFile) ==
    removeFrom(tree, fileArgumentToNormalizedPath(sourceFile),
               fileArgumentToNormalizedPath(dependencyFile))

\* getDependencies from the path it read on: the aggregator is
\* dependencies.push taken off its array, so its first call throws a
\* TypeError.
aggregate(tree, sourceFilePath, deep) ==
    IF sourceFilePath = Invalid THEN throw(tree, "Error")
    ELSE IF getOrCreateEntry(tree, sourceFilePath)[sourceFilePath].dependencies # <<>>
         THEN throw(getOrCreateEntry(tree, sourceFilePath), "TypeError")
         ELSE ret(getOrCreateEntry(tree, sourceFilePath), <<>>)

getDependencies(tree, sourceFile, deep) ==
    aggregate(tree, fileArgumentToNormalizedPath(sourceFile), deep)

\* What the methods of one file argument do once they have read its path.
onEntry(tree, sourceFilePath, method) ==
    IF sourceFilePath = Invalid THEN throw(tree, "Error")
    ELSE IF method = "markAsCompiled"
         THEN ret(markClean(tree, sourceFilePath), "none")
    ELSE IF method = "isCompiled"
         THEN ret(getOrCreateEntry(tree, sourceFilePath),
                  getOrCreateEntry(tree, sourceFilePath)[sourceFilePath].recompile = FALSE)
    ELSE ret(getOrCreateEntry(tree, sourceFilePath),
             getOrCreateEntry(tree, sourceFilePath)[sourceFilePath])

\* A markAsCompiled that flips the flag.
toggles(tree, sourceFile) ==
    IF fileArgumentToNormalizedPath(sourceFile) = Invalid THEN throw(tree, "Error")
    ELSE ret(setRecompile(
                 getOrCreateEntry(tree, fileArgumentToNormalizedPath(sourceFile)),
                 fileArgumentToNormalizedPath(sourceFile),
                 has(tree, fileArgumentToNormalizedPath(sourceFile))
                 /\ tree[fileArgumentToNormalizedPath(sourceFile)].recompile = FALSE),
             "none")

markAsCompiled(tree, sourceFile) ==
    onEntry(tree, fileArgumentToNormalizedPath(sourceFile), "markAsCompiled")

\* A read that leaves the node marked compiled.
cleansOnRead(tree, sourceFile) ==
    onEntry(tree, fileArgumentToNormalizedPath(sourceFile), "markAsCompiled")

isCompiled(tree, sourceFile) ==
    onEntry(tree, fileArgumentToNormalizedPath(sourceFile), "isCompiled")

getEntry(tree, sourceFile) ==
    onEntry(tree, fileArgumentToNormalizedPath(sourceFile), "getEntry")

\* A clear that keeps the entries.
clearsNothing(tree) == ret(tree, "none")

\* internalTree.clear() and sass_tree.clear().
clear(tree) == ret(EmptyMap, "none")

\* ------------------------------------------------------------ inputs

CSS == ".css"

vinyl(path, base, history, contents) ==
    [kind |-> "vinyl", path |-> path, base |-> base, history |-> history,
     contents |-> contents]

\* The pieces of a stylesheet: an import statement importRegex matches, and
\* any other text.
imp(importPath) == [kind |-> "import", path |-> importPath]
text == [kind |-> "text", path |-> <<>>]

Matches == {imp(<<"a">>), imp(<<"b">>), imp(<<"x">>)}
Pieces == Matches \cup {text}

\* The contents of a stylesheet: no piece, one piece or two.
Contents ==
    {<<>>} \cup {<<piece>> : piece \in Pieces}
           \cup {<<first, second>> : first \in Pieces, second \in Pieces}

\* gulp.src of the stylesheets: a.scss and _b.scss read with base /r,
\* s/a.scss read with base /r/s.
source(path, contents) ==
    vinyl(path, IF path = FileSA THEN Sub ELSE Root, <<path>>, contents)

SourceFiles == {source(path, contents) : path \in DiskFiles, contents \in Contents}

\* path with its suffix replaced (gulp-sass renames a.scss to a.css).
renamed(path, suffix) == SubSeq(path, 1, Len(path) - 1) \o <<suffix>>

\* The files behind the compiler: a.css that was a.scss, a.scss that was
\* s/a.scss, and a b.css that never was a stylesheet.
CompiledFiles ==
    {vinyl(renamed(FileA, CSS), Root, <<FileA, renamed(FileA, CSS)>>, <<imp(<<"b">>)>>),
     vinyl(FileA, Root, <<FileSA, FileA>>, <<>>),
     vinyl(<<SEP, "r", SEP, "b", CSS>>, Root, << <<SEP, "r", SEP, "b", CSS>> >>, <<>>)}

\* The files the stages that do not read the contents are handed.
Stylesheets == {source(path, <<>>) : path \in DiskFiles}
PlainFiles == Stylesheets \cup CompiledFiles

SassOptionSet ==
    {[hasIncludePaths |-> FALSE, includePaths |-> <<>>],
     [hasIncludePaths |-> TRUE, includePaths |-> <<Sub, Root>>]}

\* What a watcher hands to queueRebuild and needsRebuild: the paths, one of
\* them as Windows writes it, and a Vinyl file.
WatchedFiles ==
    {str(FileA), str(<<SEP, "r", "\\", "_", "b", SCSS>>), str(FileSA),
     source(FileB, <<>>)}

Null == [kind |-> "null"]

\* The file arguments handed to SassDependencyTree: a path relative to the
\* working directory, absolute paths, and null.
TreeFiles == {str(<<"a", SCSS>>), str(FileB), str(FileSA), Null}

\* The shapes of a file argument: a Map with the key 'path', an object with
\* the property path, and a Vinyl file, which keeps its path normalized.
mapOf(value) == [kind |-> "Map", hasPath |-> TRUE, path |-> value]
obj(path) == [kind |-> "object", hasPath |-> TRUE, path |-> path]
handle(path) ==
    vinyl(stripTrailingSep(posixNormalize(path)), Root,
          <<stripTrailingSep(posixNormalize(path))>>, <<>>)

\* The absolute paths the shapes are made of: a.scss, _b.scss and a.scss
\* written with a "." segment.
ShapePaths == {FileA, FileB, <<SEP, "r", SEP, ".", SEP, "a", SCSS>>}

shapes(path) == {str(path), handle(path), mapOf(str(path)), obj(path)}

\* The file arguments of no recognized shape: null, undefined, a number, a
\* Map without the key 'path', an object without path, and a Map whose
\* 'path' is null.
Undefined == [kind |-> "undefined"]
Unreadable ==
    {Null, Undefined, [kind |-> "number"],
     [kind |-> "Map", hasPath |-> FALSE, path |-> Null],
     [kind |-> "object", hasPath |-> FALSE, path |-> <<>>],
     mapOf(Null)}

ShapedFiles == UNION {shapes(path) : path \in ShapePaths} \cup Unreadable

\* A Vinyl file and its normalized absolute path, as a watcher hands them to
\* queueRebuild.
WatchedShapes ==
    {handle(path) : path \in ShapePaths}
    \cup {str(normalize(handle(path).path)) : path \in ShapePaths}

\* ------------------------------------------------------------ the state machine

\* A recorded call: the method, its file argument, its other arguments, the
\* map it found, the error it threw and the value it returned.
call(op, file, arg, before, r) ==
    [op |-> op, file |-> file, arg |-> arg, before |-> before,
     error |-> r.error, value |-> r.value]

Idle ==
    [op |-> "none", file |-> Null, arg |-> <<>>, before |-> EmptyMap,
     error |-> "none", value |-> "none"]

NoneMarked == [rebuild |-> {}, reset |-> {}]

\* No run of the sass task yet: no file between two stages, none passed by
\* filter() or marked by reportCompiled(), no watcher event.
NoRun ==
    [src |-> <<>>, filtered |-> <<>>, inspected |-> <<>>, logged |-> <<>>,
     compiled |-> <<>>, passed |-> {}, reported |-> {}, queued |-> {},
     changed |-> {}, runs |-> 0]

Init ==
    /\ instance \in {"DependencyTracker", "SassDependencyTree"}
    /\ sass_tree = EmptyMap
    /\ internalTree = EmptyMap
    /\ filterIn = <<>>
    /\ filterOut = <<>>
    /\ marked = NoneMarked
    /\ last = Idle
    /\ pipeline = NoRun

\* An observer records one call of a run: calls go unrecorded until it
\* records one, and the run is followed no further than that call.
Observe(record) == last' = Idle \/ last' = record

\* A call on the DependencyTracker that leaves r.
Tracker(op, file, arg, r) ==
    /\ edgeCount(r.tree) <= MaxEdges
    /\ sass_tree' = r.tree
    /\ UNCHANGED <<instance, internalTree, filterIn, filterOut, marked, pipeline>>
    /\ Observe(call(op, file, arg, sass_tree, r))

\* A call on the SassDependencyTree that leaves r.
Tree(op, file, arg, r) ==
    /\ edgeCount(r.tree) <= MaxEdges
    /\ internalTree' = r.tree
    /\ UNCHANGED <<instance, sass_tree, filterIn, filterOut, marked, pipeline>>
    /\ Observe(call(op, file, arg, internalTree, r))

OnTracker == last = Idle /\ instance = "DependencyTracker"
OnTree == last = Idle /\ instance = "SassDependencyTree"

Filter(file) ==
    OnTracker /\ Tracker("filter", file, <<>>, filterCondition(sass_tree, file))

NeedsRebuild(file) ==
    OnTracker /\ Tracker("needsRebuild", file, <<>>, needsRebuild(sass_tree, file))

Inspect(file, sassOptions) ==
    OnTracker /\ Tracker("inspect", file, sassOptions,
                         inspect(sass_tree, file, sassOptions))

ReportImport(match, file, sassOptions) ==
    OnTracker /\ Tracker("reportImport", file, <<match, sassOptions>>,
                         reportImport(sass_tree, match, file, sassOptions))

LogFiles(file) ==
    OnTracker /\ Tracker("logFiles", file, <<>>, logFiles(sass_tree, file))

ReportCompiled(file) ==
    OnTracker /\ Tracker("reportCompiled", file, <<>>, reportCompiled(sass_tree, file))

Reset ==
    OnTracker /\ Tracker("reset", Null, <<>>, clear(sass_tree))

QueueRebuild(file) ==
    /\ OnTracker
    /\ \E r \in queueRebuild(sass_tree, file) : Tracker("queueRebuild", file, <<>>, r)

AddDependency(sourceFile, dependencyFile) ==
    OnTree /\ Tree("addDependency", sourceFile, dependencyFile,
                   addDependency(internalTree, sourceFile, dependencyFile))

RemoveDependency(sourceFile, dependencyFile) ==
    OnTree /\ Tree("removeDependency", sourceFile, dependencyFile,
                   removeDependency(internalTree, sourceFile, dependencyFile))

GetDependencies(sourceFile, deep) ==
    OnTree /\ Tree("getDependencies", sourceFile, deep,
                   getDependencies(internalTree, sourceFile, deep))

MarkAsCompiled(sourceFile) ==
    OnTree /\ Tree("markAsCompiled", sourceFile, <<>>,
                   markAsCompiled(internalTree, sourceFile))

MarkAsNotCompiled(sourceFile) ==
    /\ OnTree
    /\ \E r \in markAsNotCompiled(internalTree, sourceFile) :
           Tree("markAsNotCompiled", sourceFile, <<>>, r)

IsCompiled(sourceFile) ==
    OnTree /\ Tree("isCompiled", sourceFile, <<>>, isCompiled(internalTree, sourceFile))

GetEntry(sourceFile) ==
    OnTree /\ Tree("getEntry", sourceFile, <<>>, getEntry(internalTree, sourceFile))

Clear ==
    OnTree /\ Tree("clear", Null, <<>>, clear(internalTree))

Next ==
    \/ \E file \in PlainFiles : Filter(file)
    \/ \E file \in WatchedFiles : NeedsRebuild(file)
    \/ \E file \in SourceFiles \cup CompiledFiles, sassOptions \in SassOptionSet :
           Inspect(file, sassOptions)
    \/ \E match \in Matches, file \in Stylesheets, sassOptions \in SassOptionSet :
           ReportImport(match, file, sassOptions)
    \/ \E file \in PlainFiles : LogFiles(file)
    \/ \E file \in PlainFiles : ReportCompiled(file)
    \/ Reset
    \/ \E file \in WatchedFiles : QueueRebuild(file)
    \/ \E sourceFile \in TreeFiles, dependencyFile \in TreeFiles :
           AddDependency(sourceFile, dependencyFile)
    \/ \E sourceFile \in TreeFiles, dependencyFile \in TreeFiles :
           RemoveDependency(sourceFile, dependencyFile)
    \/ \E sourceFile \in TreeFiles, deep \in BOOLEAN :
           GetDependencies(sourceFile, deep)
    \/ \E sourceFile \in TreeFiles : MarkAsCompiled(sourceFile)
    \/ \E sourceFile \in TreeFiles : MarkAsNotCompiled(sourceFile)
    \/ \E sourceFile \in TreeFiles : IsCompiled(sourceFile)
    \/ \E sourceFile \in TreeFiles : GetEntry(sourceFile)
    \/ Clear

Spec == Init /\ [][Next]_vars

\* ------------------------------------------------------------ a filter() stream

\* A DependencyTracker whose calls go unrecorded.
TrackerInit == Init /\ instance = "DependencyTracker"

\* A call on that tracker that leaves r.
Unrecorded(r) ==
    /\ edgeCount(r.tree) <= MaxEdges
    /\ sass_tree' = r.tree
    /\ UNCHANGED <<instance, internalTree, last, pipeline>>

\* gulp-ignore's include: the stream emits the file when the condition
\* holds of it and drops it otherwise.
include(file, r) ==
    /\ Unrecorded(r)
    /\ filterIn' = Append(filterIn, file)
    /\ filterOut' = IF r.value THEN Append(filterOut, file) ELSE filterOut
    /\ UNCHANGED marked

\* filter() is called: a new stream.
StreamOpened ==
    /\ filterIn # <<>>
    /\ filterIn' = <<>>
    /\ filterOut' = <<>>
    /\ UNCHANGED <<instance, sass_tree, internalTree, marked, last, pipeline>>

\* A file reaches the stream.
StreamFile(file) ==
    /\ Len(filterIn) < MaxStream
    /\ include(file, filterCondition(sass_tree, file))

\* What the build does between two files of the stream.
StreamInspect(file, sassOptions) ==
    /\ Unrecorded(inspect(sass_tree, file, sassOptions))
    /\ UNCHANGED <<filterIn, filterOut, marked>>

StreamReportCompiled(file) ==
    /\ Unrecorded(reportCompiled(sass_tree, file))
    /\ UNCHANGED <<filterIn, filterOut, marked>>

StreamQueueRebuild(file) ==
    /\ \E r \in queueRebuild(sass_tree, file) : Unrecorded(r)
    /\ UNCHANGED <<filterIn, filterOut, marked>>

StreamReset ==
    /\ Unrecorded(clear(sass_tree))
    /\ UNCHANGED <<filterIn, filterOut, marked>>

\* The stylesheet the build reads between two files: a.scss, which imports b.
ReadFiles == {source(FileA, <<imp(<<"b">>)>>)}

StreamNext ==
    \/ StreamOpened
    \/ \E file \in PlainFiles : StreamFile(file)
    \/ \E file \in ReadFiles, sassOptions \in SassOptionSet :
           StreamInspect(file, sassOptions)
    \/ \E file \in PlainFiles : StreamReportCompiled(file)
    \/ \E file \in WatchedFiles : StreamQueueRebuild(file)
    \/ StreamReset

SpecStream == TrackerInit /\ [][StreamNext]_vars

\* ------------------------------------------------------------ pipeline runs

\* The paths reportCompiled marks of a file.
markedBy(file) ==
    {normalize(file.history[i]) :
        i \in {j \in 1..Len(file.history) : endsWith(file.history[j], SCSS)}}

\* The history the run keeps beside the map.
nowMarked(rebuild, reset) == [rebuild |-> rebuild, reset |-> reset]

RunInspect(file, sassOptions) ==
    /\ Unrecorded(inspect(sass_tree, file, sassOptions))
    /\ UNCHANGED <<filterIn, filterOut, marked>>

RunReportCompiled(file) ==
    /\ Unrecorded(reportCompiled(sass_tree, file))
    /\ marked' = nowMarked(marked.rebuild \cup markedBy(file),
                           marked.reset \cup markedBy(file))
    /\ UNCHANGED <<filterIn, filterOut>>

RunQueueRebuild(file) ==
    /\ \E r \in queueRebuild(sass_tree, file) : Unrecorded(r)
    /\ marked' = nowMarked({}, {})
    /\ UNCHANGED <<filterIn, filterOut>>

RunReset ==
    /\ Unrecorded(clear(sass_tree))
    /\ marked' = nowMarked(marked.rebuild, {})
    /\ UNCHANGED <<filterIn, filterOut>>

RunNext ==
    \/ \E file \in SourceFiles, sassOptions \in SassOptionSet : RunInspect(file, sassOptions)
    \/ \E file \in PlainFiles : RunReportCompiled(file)
    \/ \E file \in WatchedFiles : RunQueueRebuild(file)
    \/ RunReset

SpecRun == TrackerInit /\ [][RunNext]_vars

\* ------------------------------------------------------------ import resolution, called

\* A null contextPath.
NoContext == NotFound

\* resolveSassImport called on its own.
Resolve(importPath, includePath, contextPath) ==
    /\ last = Idle
    /\ last' = call("resolveSassImport", Null, <<importPath, includePath, contextPath>>,
                    sass_tree,
                    ret(sass_tree, resolveSassImport(importPath, includePath, contextPath)))
    /\ UNCHANGED <<instance, sass_tree, internalTree, filterIn, filterOut, marked, pipeline>>

\* s/a.scss as two globs read it: /r/s/*.scss gives it the base /r/s, its
\* directory, and /r/**/*.scss the base /r; its one import is a file of its
\* directory, of /r, or of neither.
GlobbedFiles ==
    {vinyl(FileSA, base, <<FileSA>>, <<imp(importPath)>>) :
        base \in BaseDirs, importPath \in {<<"h">>, <<"i">>, <<"c">>, <<"x">>}}

ResolveNext ==
    \/ \E importPath \in ImportPaths, includePath \in IncludeDirs,
          contextPath \in {NoContext} \cup BaseDirs :
           Resolve(importPath, includePath, contextPath)
    \/ \E file \in GlobbedFiles, sassOptions \in SassOptionSet : Inspect(file, sassOptions)

SpecResolve == TrackerInit /\ [][ResolveNext]_vars

\* ------------------------------------------------------------ file arguments of every shape

ShapesNext ==
    \/ \E sourceFile \in ShapedFiles, dependencyFile \in ShapedFiles :
           AddDependency(sourceFile, dependencyFile)
    \/ \E sourceFile \in ShapedFiles, dependencyFile \in ShapedFiles :
           RemoveDependency(sourceFile, dependencyFile)
    \/ \E sourceFile \in ShapedFiles, deep \in BOOLEAN :
           GetDependencies(sourceFile, deep)
    \/ \E sourceFile \in ShapedFiles : MarkAsCompiled(sourceFile)
    \/ \E sourceFile \in ShapedFiles : MarkAsNotCompiled(sourceFile)
    \/ \E sourceFile \in ShapedFiles : IsCompiled(sourceFile)
    \/ \E sourceFile \in ShapedFiles : GetEntry(sourceFile)
    \/ Clear
    \/ \E file \in ReadFiles, sassOptions \in SassOptionSet : Inspect(file, sassOptions)
    \/ \E file \in Stylesheets : ReportCompiled(file)
    \/ \E file \in WatchedShapes : NeedsRebuild(file)
    \/ \E file \in WatchedShapes : QueueRebuild(file)

SpecShapes == Init /\ [][ShapesNext]_vars

\* ------------------------------------------------------------ the sass task and its watcher

\* The runs of the sass task a behaviour follows.
MaxRuns == 2

\* The stylesheets the glob of the task matches, as gulp.src reads them:
\* a.scss imports the partial _b.scss, which imports the partial _c.scss.
FileC == <<SEP, "r", SEP, "_", "c", SCSS>>
Glob ==
    <<source(FileA, <<imp(<<"b">>)>>), source(FileB, <<imp(<<"_", "c">>)>>),
      source(FileC, <<>>)>>

\* The name of the file starts with an underscore.
isPartial(path) == path[lastIndexOf(path, SEP) + 1] = "_"

\* gulp-sass emits a.css for a.scss; the file keeps its history.
sass(file) ==
    vinyl(renamed(file.path, CSS), file.base,
          Append(file.history, renamed(file.path, CSS)), file.contents)

\* The run has handed every file of the glob through its stages.
runComplete ==
    /\ pipeline.runs > 0
    /\ pipeline.src = <<>> /\ pipeline.filtered = <<>> /\ pipeline.inspected = <<>>
    /\ pipeline.logged = <<>> /\ pipeline.compiled = <<>>

\* The paths of the files between filter() and reportCompiled(), as
\* gulp.src read them.
pathsOf(files) == {normalize(files[i].history[1]) : i \in 1..Len(files)}

inFlight ==
    pathsOf(pipeline.filtered) \cup pathsOf(pipeline.inspected)
        \cup pathsOf(pipeline.logged) \cup pathsOf(pipeline.compiled)

\* A stage of the task, or the watcher, leaves the map r.tree.
Staged(r) ==
    /\ edgeCount(r.tree) <= MaxEdges
    /\ sass_tree' = r.tree
    /\ UNCHANGED <<instance, internalTree, filterIn, filterOut, marked, last>>

\* gulp.task('sass'): gulp.src reads the files of the glob.
PipeSrc ==
    /\ pipeline.runs = 0 \/ runComplete
    /\ pipeline.runs < MaxRuns
    /\ pipeline' = [NoRun EXCEPT !.src = Glob, !.runs = pipeline.runs + 1]
    /\ UNCHANGED <<instance, sass_tree, internalTree, filterIn, filterOut, marked, last>>

\* .pipe(sassDepTracker.filter())
filtered(file, r) ==
    [pipeline EXCEPT
        !.src = Tail(pipeline.src),
        !.filtered = IF r.value THEN Append(pipeline.filtered, file)
                     ELSE pipeline.filtered,
        !.passed = IF r.value THEN pipeline.passed \cup {normalize(file.path)}
                   ELSE pipeline.passed]

PipeFilter ==
    /\ pipeline.src # <<>>
    /\ Staged(filterCondition(sass_tree, Head(pipeline.src)))
    /\ pipeline' = filtered(Head(pipeline.src),
                            filterCondition(sass_tree, Head(pipeline.src)))

\* .pipe(sassDepTracker.inspect(sassOptions))
PipeInspect(sassOptions) ==
    /\ pipeline.filtered # <<>>
    /\ Staged(inspect(sass_tree, Head(pipeline.filtered), sassOptions))
    /\ pipeline' = [pipeline EXCEPT
                       !.filtered = Tail(pipeline.filtered),
                       !.inspected = Append(pipeline.inspected, Head(pipeline.filtered))]

\* .pipe(sassDepTracker.logFiles())
PipeLogFiles ==
    /\ pipeline.inspected # <<>>
    /\ Staged(logFiles(sass_tree, Head(pipeline.inspected)))
    /\ pipeline' = [pipeline EXCEPT
                       !.inspected = Tail(pipeline.inspected),
                       !.logged = Append(pipeline.logged,
                                         logFiles(sass_tree, Head(pipeline.inspected)).value)]

\* .pipe(sass(sassOptions)): the compiler emits no file for a partial.
PipeSass ==
    /\ pipeline.logged # <<>>
    /\ pipeline' = [pipeline EXCEPT
                       !.logged = Tail(pipeline.logged),
                       !.compiled = IF isPartial(Head(pipeline.logged).path)
                                    THEN pipeline.compiled
                                    ELSE Append(pipeline.compiled,
                                                sass(Head(pipeline.logged)))]
    /\ UNCHANGED <<instance, sass_tree, internalTree, filterIn, filterOut, marked, last>>

\* .pipe(sassDepTracker.reportCompiled()), and gulp.dest takes the file.
PipeReportCompiled ==
    /\ pipeline.compiled # <<>>
    /\ Staged(reportCompiled(sass_tree, Head(pipeline.compiled)))
    /\ pipeline' = [pipeline EXCEPT
                       !.compiled = Tail(pipeline.compiled),
                       !.reported = pipeline.reported
                                        \cup markedBy(Head(pipeline.compiled))]

\* watcher.on('change') and watcher.on('unlink'): queueRebuild(file), between
\* any two stage callbacks.  The run keeps the paths queued while in flight
\* and those queued after it was complete.
watched(path) ==
    [pipeline EXCEPT
        !.queued = pipeline.queued \cup ({path} \cap inFlight),
        !.changed = IF runComplete THEN pipeline.changed \cup {path}
                    ELSE pipeline.changed]

PipeQueueRebuild(file) ==
    /\ pipeline.runs > 0
    /\ \E r \in queueRebuild(sass_tree, file) : Staged(r)
    /\ pipeline' = watched(normalize(file.path))

WatchedGlob == {str(Glob[i].path) : i \in 1..Len(Glob)}

PipelineNext ==
    \/ PipeSrc
    \/ PipeFilter
    \/ \E sassOptions \in SassOptionSet : PipeInspect(sassOptions)
    \/ PipeLogFiles
    \/ PipeSass
    \/ PipeReportCompiled
    \/ \E file \in WatchedGlob : PipeQueueRebuild(file)

SpecPipeline == TrackerInit /\ [][PipelineNext]_vars

\* ------------------------------------------------------------ vocabulary of the properties

\* The map of the object the run constructed.
graph == IF instance = "DependencyTracker" THEN sass_tree ELSE internalTree

\* The key a method of that object reads from its file argument.
keyOf(file) ==
    IF instance = "DependencyTracker" THEN normalize(file.path)
    ELSE fileArgumentToNormalizedPath(file)

\* A file is dirty when its node is marked for recompilation or it has none.
dirty(tree, path) == path \notin DOMAIN tree \/ tree[path].recompile = TRUE
clean(tree, path) == ~dirty(tree, path)

\* The nodes that list a path of S among their dependencies.
directDependents(tree, S) ==
    {key \in DOMAIN tree : \E path \in S : inArray(tree[key].dependencies, path)}

\* S and every node that depends on a path of S, directly or transitively.
RECURSIVE withDependents(_, _)
withDependents(tree, S) ==
    IF directDependents(tree, S) \subseteq S THEN S
    ELSE withDependents(tree, S \cup directDependents(tree, S))

Invalidations == {"markAsNotCompiled", "queueRebuild"}

\* The observer recorded a call of one of the methods, and the call returned.
Returned(ops) == last.op \in ops /\ last.error = "none"

allClean(tree) == \A key \in DOMAIN tree : clean(tree, key)

\* ------------------------------------------------------------ C1

\* C1: after markAsNotCompiled(X) or queueRebuild(X) has returned, in any
\* reachable state, X and every file that depends on X, directly or
\* transitively, is dirty.
C1_InvalidationReachesEveryDependent ==
    Returned(Invalidations) =>
        \A path \in withDependents(graph, {keyOf(last.file)}) : dirty(graph, path)

\* ------------------------------------------------------------ C2

\* C2: from a state in which every node is clean, queueRebuild(X) or
\* markAsNotCompiled(X) leaves dirty exactly X and the nodes that depend on
\* X directly or transitively; every other node stays clean.
C2_FromAllCleanExactlyTheDependents ==
    (Returned(Invalidations) /\ allClean(last.before)) =>
        \A key \in DOMAIN graph :
            dirty(graph, key) <=> key \in withDependents(last.before, {keyOf(last.file)})

\* The chain a.scss -> _b.scss -> s/a.scss, all three clean, and s/a.scss
\* invalidated: all three are dirty.
C2_ChainInvalidated ==
    /\ Returned(Invalidations)
    /\ keyOf(last.file) = FileSA
    /\ DOMAIN last.before = {FileA, FileB, FileSA}
    /\ allClean(last.before)
    /\ last.before[FileA].dependencies = <<FileB>>
    /\ last.before[FileB].dependencies = <<FileSA>>
    /\ \A key \in {FileA, FileB, FileSA} : dirty(graph, key)

\* ------------------------------------------------------------ C3

\* C3: markAsNotCompiled and queueRebuild terminate on every graph, with
\* self-loops and cycles: no call runs out of stack; and with a.scss ->
\* _b.scss and _b.scss -> a.scss, invalidating a.scss leaves both dirty.
C3_InvalidationTerminates ==
    (last.op \in Invalidations) =>
        /\ last.error # "RangeError"
        /\ (/\ last.error = "none"
            /\ keyOf(last.file) = FileA
            /\ inArray(graph[FileA].dependencies, FileB)
            /\ FileB \in DOMAIN graph
            /\ inArray(graph[FileB].dependencies, FileA))
           => (dirty(graph, FileA) /\ dirty(graph, FileB))

\* A cycle of two clean nodes, one of them invalidated.
C3_CycleInvalidated ==
    /\ Returned(Invalidations)
    /\ keyOf(last.file) = FileA
    /\ DOMAIN last.before = {FileA, FileB}
    /\ allClean(last.before)
    /\ last.before[FileA].dependencies = <<FileB>>
    /\ last.before[FileB].dependencies = <<FileA>>
    /\ dirty(graph, FileA) /\ dirty(graph, FileB)

\* ------------------------------------------------------------ C4

\* a is b with some of its elements left out.
RECURSIVE isSubsequence(_, _)
isSubsequence(a, b) ==
    IF a = <<>> THEN TRUE
    ELSE IF b = <<>> THEN FALSE
    ELSE IF Head(a) = Head(b) THEN isSubsequence(Tail(a), Tail(b))
    ELSE isSubsequence(a, Tail(b))

\* The file that reaches the stream in a step is emitted exactly when its
\* path does not end in ".scss" or its node is dirty before the step.
C4_FileFiltered ==
    (filterIn' # filterIn /\ filterIn' # <<>>) =>
        /\ Len(filterIn') = Len(filterIn) + 1
        /\ filterOut' =
               IF \/ ~endsWith(filterIn'[Len(filterIn')].path, SCSS)
                  \/ dirty(sass_tree, normalize(filterIn'[Len(filterIn')].path))
               THEN Append(filterOut, filterIn'[Len(filterIn')])
               ELSE filterOut

\* C4: filter passes a file iff its path does not end in ".scss" or its
\* node is dirty at the moment the file reaches the stream; what the stream
\* emits is a sub-sequence of what it took in, in the same order, and it
\* never emits a clean tracked file.
C4_FilterPassesDirtyAndUntracked ==
    [][C4_FileFiltered]_vars /\ [](isSubsequence(filterOut, filterIn))

\* One stylesheet reaches the stream twice: clean the first time and held
\* back, dirty the second time and emitted; then a .css file is emitted.
C4_CleanHeldBackDirtyEmitted ==
    /\ Len(filterIn) = 2
    /\ filterIn[1] = filterIn[2]
    /\ endsWith(filterIn[1].path, SCSS)
    /\ filterOut = <<filterIn[2]>>
    /\ dirty(sass_tree, normalize(filterIn[2].path))

\* ------------------------------------------------------------ C5

\* The entry a node is born with.
bornDirty == [recompile |-> TRUE, dependencies |-> <<>>]

\* The nodes the recorded call created.
created == DOMAIN graph \ DOMAIN last.before

\* C5: a file no call has referenced is dirty: isCompiled returns false for
\* it and filter passes it; and after clear() or reset() the graph is as
\* freshly constructed: it has no node, and a node created afterwards by a
\* read is born dirty with no dependency.
C5_UnreferencedIsDirtyAndClearIsFresh ==
    /\ (Returned({"isCompiled"}) /\ keyOf(last.file) \notin DOMAIN last.before)
           => last.value = FALSE
    /\ (Returned({"filter", "needsRebuild"}) /\ keyOf(last.file) \notin DOMAIN last.before)
           => last.value = TRUE
    /\ Returned({"isCompiled", "getEntry", "filter", "needsRebuild"})
           => \A key \in created : graph[key] = bornDirty
    /\ (last.op \in {"clear", "reset"}) => (last.error = "none" /\ graph = EmptyMap)

\* clear() or reset() on a graph that holds a clean node with a dependency.
C5_ClearedAfterUse ==
    /\ Returned({"clear", "reset"})
    /\ \E key \in DOMAIN last.before :
           clean(last.before, key) /\ last.before[key].dependencies # <<>>
    /\ graph = EmptyMap

\* ------------------------------------------------------------ C7

\* The keys of the entries of a file's history that end in ".scss".
scssHistory(file) ==
    {normalize(file.history[i]) :
        i \in {j \in 1..Len(file.history) : endsWith(file.history[j], SCSS)}}

\* C7: reportCompiled passes every file on and marks clean the node of
\* every entry of the file's history that ends in ".scss", also when the
\* current path does not; it changes the flag of no other node and no
\* dependency list.
C7_ReportCompiledMarksTheScssHistory ==
    (last.op = "reportCompiled") =>
        /\ last.error = "none" /\ last.value = "passed"
        /\ \A key \in scssHistory(last.file) : clean(graph, key)
        /\ DOMAIN graph = DOMAIN last.before \cup scssHistory(last.file)
        /\ \A key \in DOMAIN graph \ scssHistory(last.file) : graph[key] = last.before[key]
        /\ \A key \in DOMAIN last.before :
               graph[key].dependencies = last.before[key].dependencies
        /\ \A key \in created : graph[key].dependencies = <<>>

\* reportCompiled of a.css that was a.scss, which was dirty and had a
\* dependency, beside another dirty node.
C7_RenamedFileReported ==
    /\ Returned({"reportCompiled"})
    /\ ~endsWith(last.file.path, SCSS)
    /\ scssHistory(last.file) = {FileA}
    /\ FileA \in DOMAIN last.before
    /\ dirty(last.before, FileA)
    /\ last.before[FileA].dependencies # <<>>
    /\ clean(graph, FileA)
    /\ \E key \in DOMAIN graph : key # FileA /\ dirty(graph, key)

\* ------------------------------------------------------------ C8

\* C8: a node goes from dirty to clean only in a markAsCompiled or
\* reportCompiled step that names it; no other operation turns a dirty node
\* clean.
C8_OnlyCompileReportsClean ==
    (last # Idle) =>
        \A key \in DOMAIN graph :
            (dirty(last.before, key) /\ clean(graph, key)) =>
                \/ last.op = "markAsCompiled" /\ keyOf(last.file) = key
                \/ last.op = "reportCompiled" /\ key \in scssHistory(last.file)

\* markAsCompiled of a tracked dirty node.
C8_DirtyNodeMarkedCompiled ==
    /\ Returned({"markAsCompiled"})
    /\ keyOf(last.file) \in DOMAIN last.before
    /\ dirty(last.before, keyOf(last.file))
    /\ clean(graph, keyOf(last.file))

\* ------------------------------------------------------------ C9

\* The places in includePaths of the include paths that resolve the import.
resolving(importPath, includePaths, base) ==
    {i \in 1..Len(includePaths) :
        resolveImport(importPath, includePaths[i], base) # NotFound}

first(places) == CHOOSE i \in places : \A j \in places : i <= j

\* The dependency list of a key in a map, empty when the map has no node.
dependenciesOf(tree, key) ==
    IF key \in DOMAIN tree THEN tree[key].dependencies ELSE <<>>

\* C9: reportImport tries the include paths in their order and appends
\* exactly one edge, to the path the first include path that resolves gives;
\* the include paths after it are not consulted.
C9_FirstIncludePathWins ==
    (last.op = "reportImport"
     /\ resolving(last.arg[1].path, includePathsOf(last.arg[2]), last.file.base) # {}) =>
        LET includePaths == includePathsOf(last.arg[2])
            place == first(resolving(last.arg[1].path, includePaths, last.file.base))
        IN /\ last.error = "none"
           /\ graph[keyOf(last.file)].dependencies =
                  Append(dependenciesOf(last.before, keyOf(last.file)),
                         resolveImport(last.arg[1].path, includePaths[place],
                                           last.file.base))
           /\ \A key \in DOMAIN graph \ {keyOf(last.file)} : graph[key] = last.before[key]

\* An import that the first include path resolves to one file and the
\* second to another.
C9_TwoIncludePathsResolve ==
    /\ Returned({"reportImport"})
    /\ Len(includePathsOf(last.arg[2])) = 2
    /\ resolving(last.arg[1].path, includePathsOf(last.arg[2]), last.file.base) = {1, 2}
    /\ resolveImport(last.arg[1].path, includePathsOf(last.arg[2])[1], last.file.base)
           # resolveImport(last.arg[1].path, includePathsOf(last.arg[2])[2],
                               last.file.base)
    /\ Len(graph[keyOf(last.file)].dependencies) =
           Len(dependenciesOf(last.before, keyOf(last.file))) + 1

\* ------------------------------------------------------------ C10

\* The edges the import statements of a scan give, in their order: one for
\* every statement some include path resolves.
RECURSIVE edgesOf(_, _, _)
edgesOf(matches, includePaths, base) ==
    IF matches = <<>> THEN <<>>
    ELSE IF resolving(Head(matches).path, includePaths, base) = {}
         THEN edgesOf(Tail(matches), includePaths, base)
         ELSE <<resolveImport(
                    Head(matches).path,
                    includePaths[first(resolving(Head(matches).path, includePaths, base))],
                    base)>>
              \o edgesOf(Tail(matches), includePaths, base)

importsOf(contents) == SelectSeq(contents, LAMBDA piece : piece.kind = "import")

\* C10: an import no include path resolves is not fatal: the call throws
\* nothing, adds no edge and changes no flag and no dependency list, and
\* the imports that follow it in the file are still processed.
C10_UnresolvedImportIsSkipped ==
    /\ (last.op = "reportImport"
        /\ resolving(last.arg[1].path, includePathsOf(last.arg[2]), last.file.base) = {})
           => (last.error = "none" /\ graph = last.before)
    /\ (last.op = "inspect" /\ endsWith(last.file.path, SCSS)) =>
           LET edges == edgesOf(importsOf(last.file.contents), includePathsOf(last.arg),
                                last.file.base)
           IN /\ last.error = "none"
              /\ last.value = Len(importsOf(last.file.contents)) - Len(edges)
              /\ dependenciesOf(graph, keyOf(last.file)) =
                     dependenciesOf(last.before, keyOf(last.file)) \o edges
              /\ edges = <<>> => graph = last.before
              /\ \A key \in DOMAIN last.before :
                     graph[key].recompile = last.before[key].recompile

\* A file whose first import resolves nowhere and whose second resolves.
C10_ImportAfterUnresolvedOne ==
    /\ Returned({"inspect"})
    /\ endsWith(last.file.path, SCSS)
    /\ Len(importsOf(last.file.contents)) = 2
    /\ resolving(importsOf(last.file.contents)[1].path, includePathsOf(last.arg),
                 last.file.base) = {}
    /\ resolving(importsOf(last.file.contents)[2].path, includePathsOf(last.arg),
                 last.file.base) # {}
    /\ last.value = 1
    /\ Len(dependenciesOf(graph, keyOf(last.file))) =
           Len(dependenciesOf(last.before, keyOf(last.file))) + 1

\* ------------------------------------------------------------ C6

\* filter over the stylesheets whose path is in S emits none of them.
filterPassesNone(S) ==
    \A file \in Stylesheets :
        normalize(file.path) \in S => ~filterCondition(sass_tree, file).value

\* C6: after reportCompiled has processed every file of a set S of .scss
\* files, and neither queueRebuild nor reset() has been called since,
\* filter over S passes no file of S: every file of S is clean.
C6_NoFilePassesAfterARun ==
    filterPassesNone(marked.reset) /\ \A path \in marked.reset : clean(sass_tree, path)

\* C6 as stated: after the run over S and no queueRebuild since, filter
\* over S passes no file of S.
C6_NoFilePassesWithoutQueueRebuild ==
    filterPassesNone(marked.rebuild)

\* The three stylesheets were inspected and reported compiled, with edges
\* between them, and nothing was queued or reset since.
C6_AllReportedCompiled ==
    /\ marked.reset = DiskFiles
    /\ edgeCount(sass_tree) = MaxEdges
    /\ filterPassesNone(DiskFiles)

\* ------------------------------------------------------------ C11

\* The observer recorded a call of resolveSassImport: its arguments.
resolved == last.op = "resolveSassImport"
importPathOf == last.arg[1]
includePathOf == last.arg[2]
contextOf == last.arg[3]

\* The import path with the suffix, unless it names one itself.
withSuffix(importPath, suffix) ==
    IF endsWith(importPath, SCSS) \/ endsWith(importPath, SASS) THEN importPath
    ELSE importPath \o <<suffix>>

explicit(importPath) == endsWith(importPath, SCSS) \/ endsWith(importPath, SASS)

\* The include path as an absolute directory.
includeDir(includePath) ==
    IF startsWith(includePath, SEP) THEN normalize(includePath)
    ELSE normalize(join(cwd, includePath))

\* The directory part and the file name of a path relative to a directory.
directoryOf(path) == SubSeq(path, 1, lastIndexOf(path, SEP))
nameOf(path) == SubSeq(path, lastIndexOf(path, SEP) + 1, Len(path))

\* The plain candidate and the partial candidate of a path under a directory.
plain(directory, path) == normalize(join(directory, path))
partial(directory, path) ==
    normalize(join(directory, directoryOf(path) \o <<"_">> \o nameOf(path)))

underscored(path) == startsWith(nameOf(path), "_")

onDisk(file) == file \in DiskFiles \cup OtherFiles

\* C11: with a null context, the plain candidate is returned when it
\* exists, also when the partial exists too; otherwise the partial is
\* returned when the file name does not start with "_" and the partial
\* exists; an import whose file name starts with "_" is resolved neither to
\* the file without the underscore nor to one with two.
C11_PartialConvention ==
    (resolved /\ contextOf = NoContext) =>
        /\ onDisk(plain(includeDir(includePathOf), withSuffix(importPathOf, SCSS)))
               => last.value = plain(includeDir(includePathOf),
                                     withSuffix(importPathOf, SCSS))
        /\ (/\ ~onDisk(plain(includeDir(includePathOf), withSuffix(importPathOf, SCSS)))
            /\ ~underscored(importPathOf)
            /\ onDisk(partial(includeDir(includePathOf), withSuffix(importPathOf, SCSS))))
               => last.value = partial(includeDir(includePathOf),
                                       withSuffix(importPathOf, SCSS))
        /\ underscored(importPathOf)
               => \/ last.value = NotFound
                  \/ nameOf(last.value) \in {nameOf(withSuffix(importPathOf, SCSS)),
                                             nameOf(withSuffix(importPathOf, SASS))}

\* c is resolved where c.scss and _c.scss both exist: c.scss is returned.
C11_PlainBeforePartial ==
    /\ resolved /\ contextOf = NoContext
    /\ ~underscored(importPathOf)
    /\ onDisk(plain(includeDir(includePathOf), withSuffix(importPathOf, SCSS)))
    /\ onDisk(partial(includeDir(includePathOf), withSuffix(importPathOf, SCSS)))
    /\ last.value = plain(includeDir(includePathOf), withSuffix(importPathOf, SCSS))

\* ------------------------------------------------------------ C12

\* The candidates of an import under a directory with a suffix, in the order
\* they are tried: the file, then its partial unless the name starts with "_".
candidates(directory, importPath, suffix) ==
    IF underscored(importPath)
    THEN <<plain(directory, withSuffix(importPath, suffix))>>
    ELSE <<plain(directory, withSuffix(importPath, suffix)),
           partial(directory, withSuffix(importPath, suffix))>>

\* The first path of a sequence that is on disk, NotFound when none is.
RECURSIVE firstOnDisk(_)
firstOnDisk(paths) ==
    IF paths = <<>> THEN NotFound
    ELSE IF onDisk(Head(paths)) THEN Head(paths)
    ELSE firstOnDisk(Tail(paths))

\* C12: with a null context, an import without suffix is resolved to its
\* .scss file or else that file's partial, else to its .sass file or else
\* that file's partial, else to nothing; an import that names .scss or .sass
\* is never retried with the other suffix.
C12_ExtensionInference ==
    (resolved /\ contextOf = NoContext) =>
        IF explicit(importPathOf)
        THEN last.value =
                 firstOnDisk(candidates(includeDir(includePathOf), importPathOf, SCSS))
        ELSE last.value =
                 firstOnDisk(candidates(includeDir(includePathOf), importPathOf, SCSS)
                             \o candidates(includeDir(includePathOf), importPathOf, SASS))

\* d is resolved where only d.sass exists: d.sass is returned.
C12_SassFileFound ==
    /\ resolved /\ contextOf = NoContext
    /\ ~explicit(importPathOf)
    /\ firstOnDisk(candidates(includeDir(includePathOf), importPathOf, SCSS)) = NotFound
    /\ last.value = plain(includeDir(includePathOf), withSuffix(importPathOf, SASS))
    /\ onDisk(last.value)

\* ------------------------------------------------------------ C13

\* The context lies under the include path.
under(contextPath, includePath) ==
    /\ contextPath # NoContext
    /\ startsWithStr(normalize(contextPath), includeDir(includePath))
    /\ \/ Len(normalize(contextPath)) = Len(includeDir(includePath))
       \/ normalize(contextPath)[Len(includeDir(includePath)) + 1] = SEP

\* includePath / (contextPath relative to includePath).
contextDir(contextPath, includePath) ==
    normalize(join(includeDir(includePath),
                   SubSeq(normalize(contextPath), Len(includeDir(includePath)) + 2,
                          Len(normalize(contextPath)))))

\* What the context fallback finds of an import with a suffix.
fallback(contextPath, includePath, importPath, suffix) ==
    IF under(contextPath, includePath)
    THEN firstOnDisk(candidates(contextDir(contextPath, includePath), importPath, suffix))
    ELSE NotFound

\* C13: for an import without suffix, when neither .scss candidate exists
\* and the context fallback finds nothing, the algorithm is retried with
\* .sass and the .sass file is returned if it exists, also when the context
\* is not null and lies under the include path.
C13_SassRetryAfterFallback ==
    (/\ resolved
     /\ ~explicit(importPathOf)
     /\ firstOnDisk(candidates(includeDir(includePathOf), importPathOf, SCSS)) = NotFound
     /\ fallback(contextOf, includePathOf, importPathOf, SCSS) = NotFound
     /\ firstOnDisk(candidates(includeDir(includePathOf), importPathOf, SASS)) # NotFound)
        => last.value =
               firstOnDisk(candidates(includeDir(includePathOf), importPathOf, SASS))

\* ------------------------------------------------------------ C14

\* When the import is not found under the include path and the context lies
\* under it, the file at includePath / (contextPath relative to
\* includePath) / importPath is returned when it exists, the file before
\* its partial.
C14_ContextFallback ==
    (/\ resolved
     /\ under(contextOf, includePathOf)
     /\ firstOnDisk(candidates(includeDir(includePathOf), importPathOf, SCSS)) = NotFound
     /\ fallback(contextOf, includePathOf, importPathOf, SCSS) # NotFound)
        => last.value = fallback(contextOf, includePathOf, importPathOf, SCSS)

\* The directory of a file.
dirname(path) == SubSeq(path, 1, lastIndexOf(path, SEP) - 1)

\* The include paths do not hold the import themselves, and the directory
\* of the importing file, which lies under one of them, does.
besideTheFile(file, importPath, includePaths) ==
    /\ \A i \in 1..Len(includePaths) :
           firstOnDisk(candidates(includeDir(includePaths[i]), importPath, SCSS)) = NotFound
    /\ \E i \in 1..Len(includePaths) : under(dirname(file.path), includePaths[i])
    /\ firstOnDisk(candidates(dirname(file.path), importPath, SCSS)) # NotFound

\* C14: the context fallback returns the file found at includePath /
\* (contextPath relative to includePath) / importPath, and inspect thereby
\* resolves an import relative to the directory of the importing file and
\* records it as an edge.
C14_RelativeImportRecorded ==
    /\ C14_ContextFallback
    /\ (/\ last.op = "inspect"
        /\ endsWith(last.file.path, SCSS)
        /\ Len(importsOf(last.file.contents)) = 1
        /\ besideTheFile(last.file, importsOf(last.file.contents)[1].path,
                         includePathsOf(last.arg)))
           => /\ dependenciesOf(graph, keyOf(last.file)) # <<>>
              /\ dependenciesOf(graph, keyOf(last.file))[
                     Len(dependenciesOf(graph, keyOf(last.file)))] =
                     firstOnDisk(candidates(dirname(last.file.path),
                                            importsOf(last.file.contents)[1].path, SCSS))

\* ------------------------------------------------------------ C15

\* C15: markAsCompiled(f) is idempotent: a second call in a row leaves the
\* graph the first call left, and isCompiled(f) is true after each of the
\* two calls.
C15_MarkAsCompiledIdempotent ==
    Returned({"markAsCompiled"}) =>
        /\ isCompiled(graph, last.file).value = TRUE
        /\ markAsCompiled(graph, last.file) = ret(graph, "none")
        /\ isCompiled(markAsCompiled(graph, last.file).tree, last.file).value = TRUE
        /\ clean(last.before, keyOf(last.file)) => graph = last.before

\* markAsCompiled of a node that is marked compiled and has a dependency.
C15_MarkedAgain ==
    /\ Returned({"markAsCompiled"})
    /\ clean(last.before, keyOf(last.file))
    /\ last.before[keyOf(last.file)].dependencies # <<>>
    /\ graph = last.before

\* ------------------------------------------------------------ C16

GraphOperations ==
    {"addDependency", "removeDependency", "getDependencies", "markAsCompiled",
     "markAsNotCompiled", "isCompiled"}

\* The recorded call was handed a file argument of no recognized shape.
unreadableArgument ==
    \/ last.file \in Unreadable
    \/ last.op \in {"addDependency", "removeDependency"} /\ last.arg \in Unreadable

\* C16: a graph operation called with a file argument that is null,
\* undefined or of no recognized shape throws an error to its caller and
\* leaves the graph as it was; addDependency and removeDependency do so when
\* either of their two arguments is such.
C16_UnreadableArgumentThrows ==
    (last.op \in GraphOperations /\ unreadableArgument) =>
        (last.error = "Error" /\ graph = last.before)

\* addDependency of a source that has no node yet and a dependency that is
\* unreadable, on a graph that holds an edge.
C16_DependencyUnreadable ==
    /\ last.op = "addDependency"
    /\ last.file \notin Unreadable
    /\ last.arg \in Unreadable
    /\ keyOf(last.file) \notin DOMAIN last.before
    /\ edgeCount(last.before) > 0
    /\ last.error = "Error"
    /\ graph = last.before

\* ------------------------------------------------------------ C17

\* The paths with their shapes, and the file arguments that name the path
\* the argument names, in every shape.
Shaped == {shapes(path) : path \in ShapePaths}

shapesOf(file) == UNION {family \in Shaped : file \in family}

\* C17: the string p, a Vinyl file with the path p, a Map with 'path' -> p
\* and an object with path = p address the same node: a flag or an edge set
\* through one shape is read through every other; and queueRebuild does to a
\* Vinyl file what it does to its normalized absolute path.
C17_ShapesAddressOneNode ==
    /\ (last.op \in GraphOperations) =>
           \A g \in shapesOf(last.file) : keyOf(g) = keyOf(last.file)
    /\ Returned({"markAsCompiled"}) =>
           \A g \in shapesOf(last.file) : isCompiled(graph, g) = ret(graph, TRUE)
    /\ Returned({"markAsNotCompiled"}) =>
           \A g \in shapesOf(last.file) : isCompiled(graph, g) = ret(graph, FALSE)
    /\ Returned({"isCompiled", "getEntry"}) =>
           \A g \in shapesOf(last.file) :
               /\ isCompiled(last.before, g).value = isCompiled(last.before, last.file).value
               /\ getEntry(graph, g) = getEntry(graph, last.file)
    /\ Returned({"addDependency"}) =>
           \A g \in shapesOf(last.file), h \in shapesOf(last.arg) :
               /\ addDependency(last.before, g, h) = ret(graph, "none")
               /\ getEntry(graph, g).value.dependencies =
                      Append(dependenciesOf(last.before, keyOf(last.file)),
                             keyOf(h))
    /\ (last.op = "queueRebuild" /\ last.file.kind = "vinyl") =>
           queueRebuild(last.before, str(normalize(last.file.path)))
               = queueRebuild(last.before, last.file)

\* A Map marks compiled the node that was created, with an edge, through
\* another shape.
C17_MapMarksTheNode ==
    /\ Returned({"markAsCompiled"})
    /\ last.file.kind = "Map"
    /\ keyOf(last.file) \in DOMAIN last.before
    /\ dirty(last.before, keyOf(last.file))
    /\ last.before[keyOf(last.file)].dependencies # <<>>
    /\ \A g \in shapesOf(last.file) : isCompiled(graph, g).value = TRUE

\* ------------------------------------------------------------ C18

\* The recorded call was handed two file arguments and could read both.
readBoth == keyOf(last.file) # Invalid /\ keyOf(last.arg) # Invalid

\* C18: after addDependency(source, dependency) the source node exists,
\* created dirty and without dependency if it did not, and the path of the
\* dependency is the last element of its dependency list; the call creates
\* no node for the dependency and changes no other node; no cycle check
\* rejects the edge.
C18_AddDependencyAppends ==
    (last.op = "addDependency" /\ readBoth) =>
        /\ last.error = "none"
        /\ DOMAIN graph = DOMAIN last.before \cup {keyOf(last.file)}
        /\ graph[keyOf(last.file)].dependencies =
               Append(dependenciesOf(last.before, keyOf(last.file)), keyOf(last.arg))
        /\ graph[keyOf(last.file)].recompile = dirty(last.before, keyOf(last.file))
        /\ \A key \in DOMAIN last.before \ {keyOf(last.file)} : graph[key] = last.before[key]

\* C18 as stated: after addDependency both the source node and the
\* dependency node exist, the dependency node created dirty and without
\* dependency if it did not, and the path of the dependency is the last
\* element of the source's dependency list.
C18_BothNodesExist ==
    (last.op = "addDependency" /\ readBoth) =>
        /\ last.error = "none"
        /\ keyOf(last.file) \in DOMAIN graph
        /\ keyOf(last.arg) \in DOMAIN graph
        /\ keyOf(last.arg) \notin DOMAIN last.before \cup {keyOf(last.file)}
               => graph[keyOf(last.arg)] = bornDirty
        /\ graph[keyOf(last.file)].dependencies # <<>>
        /\ graph[keyOf(last.file)].dependencies[
               Len(graph[keyOf(last.file)].dependencies)] = keyOf(last.arg)

\* A node that depends on itself is given a dependency that has no node: the
\* call creates none.
C18_DependencyHasNoNode ==
    /\ Returned({"addDependency"})
    /\ readBoth
    /\ keyOf(last.file) \in DOMAIN last.before
    /\ inArray(last.before[keyOf(last.file)].dependencies, keyOf(last.file))
    /\ keyOf(last.arg) \notin DOMAIN graph

\* ------------------------------------------------------------ C19

\* A list without the first occurrence of x.
RECURSIVE withoutFirst(_, _)
withoutFirst(list, x) ==
    IF list = <<>> THEN <<>>
    ELSE IF Head(list) = x THEN Tail(list)
    ELSE <<Head(list)>> \o withoutFirst(Tail(list), x)

\* C19: removeDependency(source, dependency) completes and removes the first
\* occurrence of the dependency's path from the source's dependency list
\* when it is there, the other entries keeping their order, and does
\* nothing when it is not; no dirty flag changes.
C19_RemoveDependencyRemovesFirst ==
    (last.op = "removeDependency" /\ readBoth) =>
        /\ last.error = "none"
        /\ graph[keyOf(last.file)].dependencies =
               withoutFirst(dependenciesOf(last.before, keyOf(last.file)), keyOf(last.arg))
        /\ \A key \in DOMAIN graph : dirty(graph, key) = dirty(last.before, key)
        /\ \A key \in DOMAIN last.before \ {keyOf(last.file)} : graph[key] = last.before[key]

\* ------------------------------------------------------------ C20

\* C20: getDependencies(source, false) returns the dependency list of the
\* source, in insertion order and with its duplicates, for every node, and
\* the empty list for a node without dependencies; it changes no dirty flag
\* and no dependency list.
C20_GetDependenciesReturnsTheList ==
    (last.op = "getDependencies" /\ keyOf(last.file) # Invalid /\ last.arg = FALSE) =>
        /\ last.error = "none"
        /\ last.value = dependenciesOf(last.before, keyOf(last.file))
        /\ \A key \in DOMAIN graph :
               /\ dirty(graph, key) = dirty(last.before, key)
               /\ graph[key].dependencies = dependenciesOf(last.before, key)

\* ------------------------------------------------------------ C21

\* The pre-order expansion of a dependency list, followed `levels` deep:
\* each dependency, then the expansion of its own list.
RECURSIVE expansion(_, _, _)
expansion(tree, list, levels) ==
    IF list = <<>> \/ levels = 0 THEN <<>>
    ELSE <<Head(list)>>
         \o expansion(tree, dependenciesOf(tree, Head(list)), levels - 1)
         \o expansion(tree, Tail(list), levels)

\* No cycle is reachable from the node: a path of more edges than the graph
\* has repeats one.
finiteFrom(tree, key) ==
    expansion(tree, dependenciesOf(tree, key), edgeCount(tree) + 1)
        = expansion(tree, dependenciesOf(tree, key), edgeCount(tree) + 2)

\* C21: getDependencies(source, true) returns on every graph, also from a
\* source that reaches a self-loop or a cycle, and where no cycle is
\* reachable its value is the direct dependencies, each followed by the
\* pre-order expansion of its own dependencies.
C21_DeepGetDependenciesReturns ==
    (last.op = "getDependencies" /\ keyOf(last.file) # Invalid /\ last.arg = TRUE) =>
        /\ last.error = "none"
        /\ finiteFrom(last.before, keyOf(last.file)) =>
               last.value = expansion(last.before,
                                      dependenciesOf(last.before, keyOf(last.file)),
                                      edgeCount(last.before) + 1)

\* ------------------------------------------------------------ C22

\* C22: in every reachable state a node that lists a dirty node among its
\* dependencies is itself dirty.
C22_DependentsOfDirtyAreDirty ==
    \A key \in DOMAIN graph :
        \A i \in 1..Len(graph[key].dependencies) :
            (/\ graph[key].dependencies[i] \in DOMAIN graph
             /\ graph[graph[key].dependencies[i]].recompile = TRUE)
                => graph[key].recompile = TRUE

\* ------------------------------------------------------------ C23

\* C23: markAsNotCompiled(X) and queueRebuild(X), in any state and however
\* they end, change no dependency list, turn no dirty node clean, create no
\* node other than X, and leave the dirty flag of every node that is
\* neither X nor a direct or transitive dependent of X as it was.
C23_InvalidationFrame ==
    (last.op \in Invalidations) =>
        /\ DOMAIN last.before \subseteq DOMAIN graph
        /\ DOMAIN graph \ DOMAIN last.before \subseteq {keyOf(last.file)}
        /\ \A key \in DOMAIN last.before :
               /\ graph[key].dependencies = last.before[key].dependencies
               /\ last.before[key].recompile = TRUE => graph[key].recompile = TRUE
        /\ \A key \in DOMAIN last.before \ withDependents(last.before, {keyOf(last.file)}) :
               graph[key].recompile = last.before[key].recompile

\* _b.scss is invalidated while a.scss, which imports it, and s/a.scss,
\* which does not depend on it, are clean: a.scss turns dirty and s/a.scss
\* stays clean.
C23_UnrelatedStaysClean ==
    /\ Returned(Invalidations)
    /\ keyOf(last.file) = FileB
    /\ {FileA, FileSA} \subseteq DOMAIN last.before
    /\ clean(last.before, FileA) /\ clean(last.before, FileSA)
    /\ inArray(last.before[FileA].dependencies, FileB)
    /\ FileSA \notin withDependents(last.before, {FileB})
    /\ dirty(graph, FileA) /\ dirty(graph, FileB)
    /\ clean(graph, FileSA)

\* ------------------------------------------------------------ C24

\* C24: a file the watcher queued for rebuild after filter() had passed it
\* in a run, and before reportCompiled() marked it in that run, is dirty
\* when the run is complete, so that the filter of the next run passes it.
C24_NoInvalidationLost ==
    runComplete => \A path \in pipeline.queued : dirty(sass_tree, path)

\* ------------------------------------------------------------ C25

\* C25: in the documented pipeline, whose compiler emits no file for a
\* partial, with a.scss importing the partial _b.scss and _b.scss importing
\* the partial _c.scss: after one complete run and then queueRebuild of
\* _c.scss, a.scss is dirty, so that the filter of the next run passes it.
C25_TopLevelFileRebuilt ==
    (/\ runComplete
     /\ pipeline.runs = 1
     /\ pipeline.queued = {}
     /\ pipeline.changed = {FileC}
     /\ inArray(dependenciesOf(sass_tree, FileA), FileB)
     /\ inArray(dependenciesOf(sass_tree, FileB), FileC))
        => dirty(sass_tree, FileA)

\* ------------------------------------------------------------ C26

\* The first list is a prefix of the second.
isPrefix(a, b) == Len(a) <= Len(b) /\ SubSeq(b, 1, Len(a)) = a

FacadeOperations ==
    {"filter", "needsRebuild", "inspect", "reportImport", "logFiles",
     "reportCompiled", "queueRebuild"}

\* C26: through the DependencyTracker dependency lists only grow: after
\* every operation but reset() each node is still there and its former list
\* is a prefix of its list; reportImport appends the path it resolved and
\* inspect the paths of its imports, in their order, whether or not the
\* list holds them already, so inspecting a file again adds its edges a
\* second time.
C26_DependencyListsOnlyGrow ==
    (instance = "DependencyTracker" /\ last.op \in FacadeOperations) =>
        /\ \A key \in DOMAIN last.before :
               /\ key \in DOMAIN graph
               /\ isPrefix(last.before[key].dependencies, graph[key].dependencies)
        /\ (last.op = "inspect" /\ endsWith(last.file.path, SCSS)) =>
               dependenciesOf(graph, keyOf(last.file)) =
                   dependenciesOf(last.before, keyOf(last.file))
                       \o edgesOf(importsOf(last.file.contents),
                                  includePathsOf(last.arg), last.file.base)
        /\ (last.op = "reportImport") =>
               dependenciesOf(graph, keyOf(last.file)) =
                   dependenciesOf(last.before, keyOf(last.file))
                       \o edgesOf(<<last.arg[1]>>, includePathsOf(last.arg[2]),
                                  last.file.base)

\* a.scss, whose list holds _b.scss, is inspected again and imports b: the
\* list holds _b.scss twice.
C26_InspectedAgain ==
    /\ Returned({"inspect"})
    /\ keyOf(last.file) = FileA
    /\ dependenciesOf(last.before, FileA) = <<FileB>>
    /\ dependenciesOf(graph, FileA) = <<FileB, FileB>>

\* ------------------------------------------------------------ C27

\* The maps a call may end with, and whether it returned.
ends(outcomes) == {<<r.tree, r.error = "none">> : r \in outcomes}

\* What queueRebuild is documented to take: a Vinyl file or an absolute path.
vinylOrAbsolute(file) ==
    \/ file.kind = "vinyl"
    \/ file.kind = "string" /\ isAbsolute(file.path)

loggedPaths ==
    pipeline.passed \ (pathsOf(pipeline.filtered) \cup pathsOf(pipeline.inspected))

\* A step of the logFiles() stage.
logFilesStep ==
    /\ Len(pipeline'.inspected) < Len(pipeline.inspected)
    /\ pipeline'.runs = pipeline.runs

\* C28: logFiles() is a pass-through stage: it hands on every file it is
\* handed, in the order it is handed them, and changes no dirty flag and no
\* dependency list; a file that has passed through it and that
\* reportCompiled() has not marked since is still dirty.
C28_LogFilesPassesThrough ==
    /\ [][logFilesStep =>
            /\ sass_tree' = sass_tree
            /\ pipeline'.inspected = Tail(pipeline.inspected)
            /\ pipeline'.logged = Append(pipeline.logged, Head(pipeline.inspected))]_vars
    /\ [](\A path \in loggedPaths \ pipeline.reported : dirty(sass_tree, path))

\* The run is complete: the partial _b.scss passed through logFiles() and
\* never reached reportCompiled(), and is dirty; a.scss reached it and is
\* clean.
C28_PartialStillDirty ==
    /\ runComplete
    /\ FileB \in loggedPaths \ pipeline.reported
    /\ dirty(sass_tree, FileB) /\ FileB \in DOMAIN sass_tree
    /\ FileA \in loggedPaths \cap pipeline.reported
    /\ clean(sass_tree, FileA)

\* ------------------------------------------------------------ C29

\* C29: every scan starts with a fresh cursor: whatever files were scanned
\* before, inspect hands the callback every import statement of the file's
\* contents once, in the order of the contents; the scan ends, and when the
\* file is handed on every callback has run: of a .scss file every import
\* has either added its edge, in that order, or been warned about.
C29_FreshCursorPerFile ==
    (last.op = "inspect") =>
        /\ last.error = "none"
        /\ scan(last.file.contents) = importsOf(last.file.contents)
        /\ endsWith(last.file.path, SCSS) =>
               /\ dependenciesOf(graph, keyOf(last.file)) =
                      dependenciesOf(last.before, keyOf(last.file))
                          \o edgesOf(scan(last.file.contents), includePathsOf(last.arg),
                                     last.file.base)
               /\ last.value + Len(dependenciesOf(graph, keyOf(last.file)))
                      = Len(importsOf(last.file.contents))
                            + Len(dependenciesOf(last.before, keyOf(last.file)))
        /\ ~endsWith(last.file.path, SCSS) => graph = last.before

\* A file with two import statements is scanned after the scan of another
\* file has found one: the first is warned about and the second adds its
\* edge.
C29_ScannedAfterAnotherFile ==
    /\ Returned({"inspect"})
    /\ \E key \in DOMAIN last.before :
           key # keyOf(last.file) /\ last.before[key].dependencies # <<>>
    /\ Len(last.file.contents) = 2
    /\ Len(importsOf(last.file.contents)) = 2
    /\ last.value = 1
    /\ Len(dependenciesOf(graph, keyOf(last.file))) =
           Len(dependenciesOf(last.before, keyOf(last.file))) + 1

\* ------------------------------------------------------------ C30

\* The invocations of the recorded call, and those of them it nests.
made == invocations(importPathOf, includePathOf, contextOf)
nestedCalls == Tail(made)

\* The nested invocation is the retry with ".sass" of the one before it.
sassRetry(i) == made[i][1] = made[i - 1][1] \o <<SASS>>

\* C30: resolveSassImport ends for every import path, include path, context
\* and disk: a nested invocation is the retry with ".sass", made at most
\* once, or the context fallback, made with a null context; a call nests at
\* most three invocations; and a result that is not null is a path that
\* exists on disk.
C30_ResolveTerminates ==
    resolved =>
        /\ Len(nestedCalls) <= 3
        /\ \A i \in 2..Len(made) : sassRetry(i) \/ made[i][3] = NotFound
        /\ Cardinality({i \in 2..Len(made) : sassRetry(i)}) <= 1
        /\ last.value # NotFound => onDisk(last.value)

\* An import found through the context fallback: one nested invocation,
\* with a null context, returns a file on disk.
C30_FoundByNestedCall ==
    /\ resolved
    /\ contextOf # NoContext
    /\ Len(nestedCalls) = 1
    /\ made[2][3] = NotFound
    /\ last.value # NotFound
    /\ onDisk(last.value)

====
